---- MODULE Spec2Model ----
(***************************************************************************)
(* rawslice: SliceIter, a pointer-pair iterator over contiguous memory,    *)
(* and its short-circuiting fold engine (src/src/iter.rs).                 *)
(*                                                                         *)
(* Addresses are counted in element strides (the element type of the       *)
(* property tests is i8, size 1).  A reference &T is modelled by the       *)
(* address it points to.  Option<X> is <<>> (None) or <<x>> (Some(x)).     *)
(***************************************************************************)
EXTENDS Integers, Sequences, FiniteSets, Bags

\* ---------------------------------------------------------------- bounds
MaxLen == 7            \* longest buffer
MaxOffset == 1         \* largest sub-slice offset `&v[offset..]`
BufAddr == 2           \* address of v[0]

\* element values; predicates are `|x| *x == pat` and its negation
Values == {0, 1}

\* ------------------------------------------------------------- constants
\* `0x1 as *const T` of Default::default
DanglingAddr == 1
\* the unrolling factor of Unroll4: `self.len() >= 4` and four sub-steps
Fold4 == 4
\* usize arithmetic wraps; the word is narrowed to fit the model checker's integers
UsizeModulus == 2 ^ 20

VARIABLES
    v,        \* the borrowed buffer (a Vec<i8>), v[0] at BufAddr
    orig,     \* the range the iterator was constructed over
    self,     \* the SliceIter: [ptr, end, un]; un is Un::UNROLL
    frame,    \* activation record of the method running or last run
    visits    \* bag of the addresses yielded so far by any method

vars == <<v, orig, self, frame, visits>>

None == <<>>
Some(x) == <<x>>

\* ---------------------------------------------------------------- memory
Readable == BufAddr .. (BufAddr + Len(v) - 1)

\* `&*p`: the value behind a reference.  Outside the borrowed buffer the
\* read is undefined behaviour: any value may come back.
Deref(a) == IF a \in Readable THEN {v[a - BufAddr + 1]} ELSE Values

\* ------------------------------------------------------------- SliceIter
new(start, end_, un) == [ptr |-> start, end |-> end_, un |-> un]

ptrdistance(from_, to) == (to - from_) % UsizeModulus

len(s) == ptrdistance(s.ptr, s.end)

\* rawpointer's PointerExt: post_inc returns the old pointer, pre_dec the new
post_inc(s) == [s EXCEPT !.ptr = @ + 1]
pre_dec(s) == [s EXCEPT !.end = @ - 1]

unrolled(s) == [ptr |-> s.ptr, end |-> s.end, un |-> TRUE]

Range(s) == [ptr |-> s.ptr, end |-> s.end]

\* ----------------------------------------------------------------- frame
\* pc: "idle" (no method running), "unrolled" (in the 4-wide loop of a fold,
\* sub sub-steps of the current batch done), "remainder" (in the 1-wide loop),
\* "panicked" (an assert! failed).
\* index: the closure's running index (position, rposition), or the argument
\* of Index::index.  visited: the references produced by the call, in order.
\* snap: the range at the call.
Idle(op, snap, visited, ret) ==
    [pc |-> "idle", sub |-> 0, op |-> op, pred |-> None, accum |-> None,
     index |-> 0, visited |-> visited, snap |-> snap, ret |-> ret]

Running == {"unrolled", "remainder"}

enter(op, pred, accum, index_, s) ==
    [pc |-> "unrolled", sub |-> 0, op |-> op, pred |-> pred, accum |-> accum,
     index |-> index_, visited |-> <<>>, snap |-> Range(s), ret |-> None]

\* the caller's closure `|x| *x == pat`; any() hands all() its negation
predicate(p, x) == (x = p.pat) # p.neg

\* ---------------------------------------------------- the step functions g
Continue(t, i) == [done |-> FALSE, acc |-> t, index |-> i]
Done(t, i) == [done |-> TRUE, acc |-> t, index |-> i]

\* mutant: a failing element does not stop the fold
all_g_no_done(f, a, x) ==
    IF predicate(f.pred, x) THEN Continue(TRUE, f.index) ELSE Continue(FALSE, f.index)

all_g(f, a, x) ==
    IF predicate(f.pred, x) THEN Continue(TRUE, f.index) ELSE Done(FALSE, f.index)

find_g(f, a, x) ==
    IF predicate(f.pred, x) THEN Done(Some(a), f.index) ELSE Continue(None, f.index)

\* mutant: the running index is never incremented
position_g_stale_index(f, a, x) ==
    IF predicate(f.pred, x)
    THEN Done(Some(f.index), f.index)
    ELSE Continue(None, f.index)

position_g(f, a, x) ==
    IF predicate(f.pred, x)
    THEN Done(Some(f.index), f.index)
    ELSE Continue(None, f.index + 1)

\* mutant: the index is decremented after the test instead of before it
rposition_g_post_dec(f, a, x) ==
    IF predicate(f.pred, x)
    THEN Done(Some(f.index), f.index - 1)
    ELSE Continue(None, f.index - 1)

\* `index -= 1` on a usize: the difference is kept exact here, a negative
\* value is the underflow
rposition_g(f, a, x) ==
    LET i == f.index - 1
    IN  IF predicate(f.pred, x) THEN Done(Some(i), i) ELSE Continue(None, i)

g(f, a, x) ==
    CASE f.op \in {"all", "any"} -> all_g(f, a, x)
      [] f.op = "find" -> find_g(f, a, x)
      [] f.op = "position" -> position_g(f, a, x)
      [] f.op = "rposition" -> rposition_g(f, a, x)

\* ------------------------------------------------------------ fold engine
\* the method returns acc; any() returns `!self.all(..)`
return(f, acc) ==
    [f EXCEPT !.pc = "idle", !.sub = 0, !.accum = None,
              !.ret = IF f.op = "any" THEN ~acc ELSE acc]

\* mutant: sub-steps 1 to 3 of a batch ignore Done, only the last one of a
\* batch and the 1-wide loop honour it
fold_while_macro_batch_end(s2, f, a, x, pc, sub) ==
    LET r == g(f, a, x)
        f1 == [f EXCEPT !.visited = Append(@, a), !.index = r.index]
    IN  IF r.done /\ ~(pc = "unrolled" /\ sub # 0)
        THEN <<s2, return(f1, r.acc)>>
        ELSE <<s2, [f1 EXCEPT !.accum = r.acc, !.pc = pc, !.sub = sub]>>

\* `accum = fold_while!(g(accum, elt))` with the iterator already stepped to s2:
\* Done returns from the method, Continue goes on at (pc, sub)
fold_while_macro(s2, f, a, x, pc, sub) ==
    LET r == g(f, a, x)
        f1 == [f EXCEPT !.visited = Append(@, a), !.index = r.index]
    IN  IF r.done
        THEN <<s2, return(f1, r.acc)>>
        ELSE <<s2, [f1 EXCEPT !.accum = r.acc, !.pc = pc, !.sub = sub]>>

\* mutant: the batch is entered with three elements left
in_unrolled_off_by_one(s, f) ==
    f.pc = "unrolled" /\ (f.sub # 0 \/ (s.un /\ len(s) >= Fold4 - 1))

\* mutant: the batch is entered whenever the range is not empty
in_unrolled_nonempty(s, f) ==
    f.pc = "unrolled" /\ (f.sub # 0 \/ (s.un /\ s.ptr # s.end))

\* `while Un::UNROLL && self.len() >= 4`, tested before the first sub-step only
in_unrolled(s, f) ==
    f.pc = "unrolled" /\ (f.sub # 0 \/ (s.un /\ len(s) >= Fold4))

\* one step of fold_while; x is the value read at s.ptr
fold_while_step(s, f, x) ==
    IF in_unrolled(s, f)
    THEN fold_while_macro(post_inc(s), f, s.ptr, x, "unrolled", (f.sub + 1) % Fold4)
    ELSE IF s.ptr # s.end
    THEN fold_while_macro(post_inc(s), f, s.ptr, x, "remainder", 0)
    ELSE <<s, return(f, f.accum)>>

\* one step of rfold_while; x is the value read at s.end - 1
rfold_while_step(s, f, x) ==
    IF in_unrolled(s, f)
    THEN fold_while_macro(pre_dec(s), f, s.end - 1, x, "unrolled", (f.sub + 1) % Fold4)
    ELSE IF s.ptr # s.end
    THEN fold_while_macro(pre_dec(s), f, s.end - 1, x, "remainder", 0)
    ELSE <<s, return(f, f.accum)>>

\* --------------------------------------------------------- method entries
all_enter(s, pat) == enter("all", [pat |-> pat, neg |-> FALSE], TRUE, 0, s)
any_enter(s, pat) == enter("any", [pat |-> pat, neg |-> TRUE], TRUE, 0, s)
find_enter(s, pat) == enter("find", [pat |-> pat, neg |-> FALSE], None, 0, s)
position_enter(s, pat) == enter("position", [pat |-> pat, neg |-> FALSE], None, 0, s)
\* mutant: the running index starts at the last index instead of the length
rposition_enter_last_index(s, pat) ==
    enter("rposition", [pat |-> pat, neg |-> FALSE], None, len(s) - 1, s)

rposition_enter(s, pat) ==
    enter("rposition", [pat |-> pat, neg |-> FALSE], None, len(s), s)

\* ------------------------------------------------------------------ Init
\* SliceIter::from(&v[offset..]) or SliceIter::default()
Init ==
    /\ v \in UNION {[1..n -> Values] : n \in 0..MaxLen}
    /\ \/ \E offset \in 0..MaxOffset :
            /\ offset <= Len(v)
            /\ self = new(BufAddr + offset, BufAddr + Len(v), FALSE)
       \/ /\ v = <<>>
          /\ \E un \in BOOLEAN : self = new(DanglingAddr, DanglingAddr, un)
    /\ orig = Range(self)
    /\ frame = Idle("new", Range(self), <<>>, None)
    /\ visits = EmptyBag

\* --------------------------------------------------------------- actions
\* mutant: next without the emptiness test (next_unchecked)
next_no_check ==
    /\ frame.pc = "idle"
    /\ self' = post_inc(self)
    /\ frame' = Idle("next", Range(self), <<self.ptr>>, Some(self.ptr))
    /\ visits' = visits (+) SetToBag({self.ptr})
    /\ UNCHANGED <<v, orig>>

next ==
    /\ frame.pc = "idle"
    /\ IF self.ptr # self.end
       THEN /\ self' = post_inc(self)
            /\ frame' = Idle("next", Range(self), <<self.ptr>>, Some(self.ptr))
            /\ visits' = visits (+) SetToBag({self.ptr})
       ELSE /\ frame' = Idle("next", Range(self), <<>>, None)
            /\ UNCHANGED <<self, visits>>
    /\ UNCHANGED <<v, orig>>

\* mutant: next_back reads before it decrements (post-decrement)
next_back_post_dec ==
    /\ frame.pc = "idle"
    /\ IF self.ptr # self.end
       THEN /\ self' = pre_dec(self)
            /\ frame' = Idle("next_back", Range(self), <<self.end>>, Some(self.end))
            /\ visits' = visits (+) SetToBag({self.end})
       ELSE /\ frame' = Idle("next_back", Range(self), <<>>, None)
            /\ UNCHANGED <<self, visits>>
    /\ UNCHANGED <<v, orig>>

next_back ==
    /\ frame.pc = "idle"
    /\ IF self.ptr # self.end
       THEN /\ self' = pre_dec(self)
            /\ frame' = Idle("next_back", Range(self), <<self'.end>>, Some(self'.end))
            /\ visits' = visits (+) SetToBag({self'.end})
       ELSE /\ frame' = Idle("next_back", Range(self), <<>>, None)
            /\ UNCHANGED <<self, visits>>
    /\ UNCHANGED <<v, orig>>

peek_next ==
    /\ frame.pc = "idle"
    /\ frame' = IF self.ptr # self.end
                THEN Idle("peek_next", Range(self), <<self.ptr>>, Some(self.ptr))
                ELSE Idle("peek_next", Range(self), <<>>, None)
    /\ UNCHANGED <<v, orig, self, visits>>

into_unrolled ==
    /\ frame.pc = "idle"
    /\ ~self.un
    /\ self' = unrolled(self)
    /\ frame' = Idle("unrolled", Range(self), <<>>, None)
    /\ UNCHANGED <<v, orig, visits>>

\* mutant: the bound test admits i = len
index_off_by_one(i) ==
    /\ frame.pc = "idle"
    /\ frame' = IF i <= len(self)
                THEN [Idle("index", Range(self), <<self.ptr + i>>, Some(self.ptr + i))
                        EXCEPT !.index = i]
                ELSE [Idle("index", Range(self), <<>>, None)
                        EXCEPT !.index = i, !.pc = "panicked"]
    /\ UNCHANGED <<v, orig, self, visits>>

\* Index::index: `assert!(i < self.len())`, then get_unchecked(i)
index(i) ==
    /\ frame.pc = "idle"
    /\ frame' = IF i < len(self)
                THEN [Idle("index", Range(self), <<self.ptr + i>>, Some(self.ptr + i))
                        EXCEPT !.index = i]
                ELSE [Idle("index", Range(self), <<>>, None)
                        EXCEPT !.index = i, !.pc = "panicked"]
    /\ UNCHANGED <<v, orig, self, visits>>

invoke(f) ==
    /\ frame.pc = "idle"
    /\ frame' = f
    /\ UNCHANGED <<v, orig, self, visits>>

all(pat) == invoke(all_enter(self, pat))
any(pat) == invoke(any_enter(self, pat))
find(pat) == invoke(find_enter(self, pat))
position(pat) == invoke(position_enter(self, pat))
rposition(pat) == invoke(rposition_enter(self, pat))

\* the bag of yielded addresses grows by what the step appended to visited
yield(f1, f2) ==
    IF Len(f2.visited) > Len(f1.visited)
    THEN visits (+) SetToBag({f2.visited[Len(f2.visited)]})
    ELSE visits

fold_while ==
    /\ frame.pc \in Running
    /\ frame.op # "rposition"
    /\ \E x \in Deref(self.ptr) :
          LET r == fold_while_step(self, frame, x)
          IN  /\ self' = r[1]
              /\ frame' = r[2]
              /\ visits' = yield(frame, r[2])
    /\ UNCHANGED <<v, orig>>

rfold_while ==
    /\ frame.pc \in Running
    /\ frame.op = "rposition"
    /\ \E x \in Deref(self.end - 1) :
          LET r == rfold_while_step(self, frame, x)
          IN  /\ self' = r[1]
              /\ frame' = r[2]
              /\ visits' = yield(frame, r[2])
    /\ UNCHANGED <<v, orig>>

Next ==
    \/ next
    \/ next_back
    \/ peek_next
    \/ into_unrolled
    \/ \E i \in 0..(MaxLen + 1) : index(i)
    \/ \E pat \in Values : all(pat)
    \/ \E pat \in Values : any(pat)
    \/ \E pat \in Values : find(pat)
    \/ \E pat \in Values : position(pat)
    \/ \E pat \in Values : rposition(pat)
    \/ fold_while
    \/ rfold_while

Spec == Init /\ [][Next]_vars

\* the iterator driven by next and next_back alone
NextStep ==
    \/ next
    \/ next_back

SpecStep == Init /\ [][NextStep]_vars

\* ================================================================ claims
Min(S) == CHOOSE x \in S : \A y \in S : x <= y
Max(S) == CHOOSE x \in S : \A y \in S : x >= y
Last(s) == s[Len(s)]

Mem(a) == CHOOSE x \in Deref(a) : TRUE

ScanOps == {"all", "any", "find", "position", "rposition"}

\* the method op has returned
Returned(op) == frame.pc = "idle" /\ frame.op = op

\* the range the running or returned call was made on, and its length
CallRange == frame.snap.ptr .. (frame.snap.end - 1)
CallLen == frame.snap.end - frame.snap.ptr

\* the caller's predicate at address a, and the addresses satisfying it
Sat(a) == Mem(a) = frame.pred.pat
Matching == {a \in CallRange : Sat(a)}

\* the remaining range at the call as a sequence of predicate outcomes
Outcomes == [k \in 1..CallLen |-> Sat(frame.snap.ptr + k - 1)]

\* reference scans, one element at a time: the 1-based place of the first
\* (last) b in s, 0 if there is none
RECURSIVE ScanLeft(_, _, _)
ScanLeft(s, b, k) ==
    IF k > Len(s) THEN 0
    ELSE IF s[k] = b THEN k
    ELSE ScanLeft(s, b, k + 1)

RECURSIVE ScanRight(_, _, _)
ScanRight(s, b, k) ==
    IF k = 0 THEN 0
    ELSE IF s[k] = b THEN k
    ELSE ScanRight(s, b, k - 1)

FirstMatch == ScanLeft(Outcomes, TRUE, 1)
LastMatch == ScanRight(Outcomes, TRUE, CallLen)

\* ---------------------------------------------------------------------
\* C1: when find(p) returns, its result is the first element, in forward
\* order, of the range it was called on that satisfies p, and when
\* position(p) returns, its result is the 0-based index of that element in
\* that range; both are None when no element of the range satisfies p (an
\* empty range included).  Both agree with the one-at-a-time left-to-right
\* reference scan.
FindPositionFirstMatch ==
    /\ Returned("find") =>
          /\ frame.ret = IF Matching = {} THEN None ELSE Some(Min(Matching))
          /\ frame.ret = IF FirstMatch = 0 THEN None
                         ELSE Some(frame.snap.ptr + FirstMatch - 1)
    /\ Returned("position") =>
          /\ frame.ret = IF Matching = {} THEN None
                         ELSE Some(Min(Matching) - frame.snap.ptr)
          /\ frame.ret = IF FirstMatch = 0 THEN None ELSE Some(FirstMatch - 1)

\* position found its match at index 2 of a sub-slice that next and next_back
\* had both shortened
FindPositionWitness ==
    /\ Returned("position")
    /\ frame.ret = Some(2)
    /\ orig.ptr > BufAddr
    /\ frame.snap.ptr > orig.ptr
    /\ frame.snap.end < orig.end

\* ---------------------------------------------------------------------
\* C2: when rposition(p) returns, under either strategy, its result is the
\* index, counted from the start of the range it was called on, of the last
\* element satisfying p, and None if there is none; it agrees with the
\* right-to-left reference scan.
RpositionLastMatch ==
    Returned("rposition") =>
        /\ frame.ret = IF Matching = {} THEN None
                       ELSE Some(Max(Matching) - frame.snap.ptr)
        /\ frame.ret = IF LastMatch = 0 THEN None ELSE Some(LastMatch - 1)

\* the 4-wide rposition found the only match after a full batch and one more
\* element, on a range shortened from both ends
RpositionWitness ==
    /\ Returned("rposition")
    /\ self.un
    /\ frame.ret = Some(0)
    /\ Len(frame.visited) = Fold4 + 1
    /\ frame.snap.ptr > orig.ptr
    /\ frame.snap.end < orig.end

\* ---------------------------------------------------------------------
\* C3: when all(p) returns, its result is TRUE exactly when every element
\* of the range satisfies p (TRUE on an empty range); when any(p) returns,
\* its result is not all(not p), TRUE exactly when some element satisfies p
\* (FALSE on an empty range); both agree with the left-to-right reference
\* scan.
AllAnyReference ==
    /\ Returned("all") =>
          /\ frame.ret = (\A a \in CallRange : Sat(a))
          /\ frame.ret = (ScanLeft(Outcomes, FALSE, 1) = 0)
    /\ Returned("any") =>
          /\ frame.ret = ~(\A a \in CallRange : ~Sat(a))
          /\ frame.ret = (\E a \in CallRange : Sat(a))
          /\ frame.ret = (FirstMatch # 0)

\* all returned FALSE on a failing element that a satisfying one follows
AllAnyWitness ==
    /\ Returned("all")
    /\ frame.ret = FALSE
    /\ CallLen >= 3
    /\ Len(frame.visited) = 2
    /\ Sat(frame.snap.end - 1)

\* ---------------------------------------------------------------------
\* the call of the returned scan, made again on iterator s
Reenter(s) ==
    CASE frame.op = "all" -> all_enter(s, frame.pred.pat)
      [] frame.op = "any" -> any_enter(s, frame.pred.pat)
      [] frame.op = "find" -> find_enter(s, frame.pred.pat)
      [] frame.op = "position" -> position_enter(s, frame.pred.pat)
      [] frame.op = "rposition" -> rposition_enter(s, frame.pred.pat)

\* a fold run to its return, in at most fuel steps
RECURSIVE Run(_, _, _)
Run(s, f, fuel) ==
    IF f.pc \notin Running \/ fuel = 0
    THEN <<s, f>>
    ELSE LET r == IF f.op = "rposition"
                  THEN rfold_while_step(s, f, Mem(s.end - 1))
                  ELSE fold_while_step(s, f, Mem(s.ptr))
         IN  Run(r[1], r[2], fuel - 1)

\* the iterator the call was made on, under the other strategy
OtherStrategy ==
    IF self.un
    THEN new(frame.snap.ptr, frame.snap.end, FALSE)
    ELSE unrolled(new(frame.snap.ptr, frame.snap.end, FALSE))

OtherRun == Run(OtherStrategy, Reenter(OtherStrategy), CallLen + 1)

\* C4: when all, any, find, position or rposition returns under one strategy,
\* the same call on the same pointer range under the other strategy (the
\* iterator unrolled() returns, or the 1-wide one) returns the same result,
\* has visited the same elements in the same order, and leaves the same
\* remaining range.
UnrollingTransparent ==
    (frame.pc = "idle" /\ frame.op \in ScanOps) =>
        /\ OtherRun[1].un # self.un
        /\ OtherRun[2].pc = "idle"
        /\ OtherRun[2].ret = frame.ret
        /\ OtherRun[2].visited = frame.visited
        /\ OtherRun[1].ptr = self.ptr
        /\ OtherRun[1].end = self.end

\* the 4-wide find stopped at the second element of the remainder, after a
\* full batch, on a range whose length is not a multiple of four
UnrollingWitness ==
    /\ Returned("find")
    /\ self.un
    /\ CallLen = Fold4 + 3
    /\ Len(frame.visited) = Fold4 + 2
    /\ frame.ret # None

\* ---------------------------------------------------------------------
\* C5: a next or next_back on a non-empty iterator returns an element and
\* makes the remaining length exactly one less; on an empty iterator it
\* returns None and leaves start and end (and the length, 0) unchanged; the
\* remaining length is never negative.
LengthMonotone ==
    /\ self.end - self.ptr >= 0
    /\ (Returned("next") \/ Returned("next_back")) =>
          IF CallLen > 0
          THEN /\ self.end - self.ptr = CallLen - 1
               /\ frame.ret # None
          ELSE /\ Range(self) = frame.snap
               /\ self.end - self.ptr = 0
               /\ frame.ret = None

\* next_back found the iterator exhausted after next and next_back had taken
\* every element
LengthWitness ==
    /\ Returned("next_back")
    /\ frame.ret = None
    /\ orig.end - orig.ptr >= 3
    /\ self.ptr > orig.ptr
    /\ self.end < orig.end

\* ---------------------------------------------------------------------
OrigRange == orig.ptr .. (orig.end - 1)
Unvisited == OrigRange \ BagToSet(visits)

\* C6: under any interleaving of next and next_back, no element is returned
\* twice, only elements of the original range are returned, at most as many
\* as the range holds, and once the iterator is exhausted every element has
\* been returned exactly once; next returns the lowest element not yet
\* returned and next_back the highest, so forward steps ascend from the front
\* and backward steps descend from the back.
NoDoubleVisit ==
    /\ [](/\ \A a \in BagToSet(visits) : CopiesIn(a, visits) = 1 /\ a \in OrigRange
          /\ BagCardinality(visits) <= orig.end - orig.ptr
          /\ self.ptr = self.end =>
                \A a \in OrigRange : CopiesIn(a, visits) = 1)
    /\ [][/\ next => frame'.ret = IF Unvisited = {} THEN None
                                  ELSE Some(Min(Unvisited))
          /\ next_back => frame'.ret = IF Unvisited = {} THEN None
                                       ELSE Some(Max(Unvisited))]_vars

\* the last element was taken by next after both ends had been stepped
NoDoubleVisitWitness ==
    /\ Returned("next")
    /\ frame.ret # None
    /\ self.ptr = self.end
    /\ orig.end - orig.ptr >= 4
    /\ self.ptr > orig.ptr + 1
    /\ self.end < orig.end - 1

\* ---------------------------------------------------------------------
\* C7: index(i), called with the argument frame.index on an iterator of
\* remaining length n, halts for every i >= n (every i on an empty or default
\* iterator) and for i < n returns the i-th element counted from the current
\* start; start and end are as they were at the call.
IndexChecked ==
    frame.op = "index" =>
        /\ Range(self) = frame.snap
        /\ IF frame.index >= CallLen
           THEN frame.pc = "panicked"
           ELSE /\ frame.pc = "idle"
                /\ frame.ret = Some(frame.snap.ptr + frame.index)
                /\ frame.snap.ptr + frame.index \in CallRange

\* index(n) halted on an iterator with n >= 1 elements left after a step
IndexWitness ==
    /\ frame.pc = "panicked"
    /\ frame.op = "index"
    /\ frame.index = self.end - self.ptr
    /\ self.ptr > orig.ptr
    /\ self.ptr < self.end

\* ---------------------------------------------------------------------
\* the step function returns Done on the element at a
DoneAt(a) == IF frame.op = "all" THEN ~Sat(a) ELSE Sat(a)
Stops == {a \in CallRange : DoneAt(a)}
Backward == frame.op = "rposition"

\* the number of elements up to and including the first done one
Taken ==
    IF Stops = {} THEN CallLen
    ELSE IF Backward THEN frame.snap.end - Max(Stops)
    ELSE Min(Stops) - frame.snap.ptr + 1

\* C8: under both strategies a fold visits the elements of its range in
\* order (from the back for rfold_while) and no element after one on which
\* the step function returned done; it returns at the first done, leaving
\* start just after that element (end at that element for rfold_while), so
\* the later sub-steps of a 4-wide batch are not executed; with no done the
\* iterator is left exhausted and the last accumulator is returned.
EarlyExit ==
    frame.op \in ScanOps =>
        /\ \A k \in 1..Len(frame.visited) :
              frame.visited[k] = IF Backward THEN frame.snap.end - k
                                 ELSE frame.snap.ptr + k - 1
        /\ \A k \in 1..(Len(frame.visited) - 1) : ~DoneAt(frame.visited[k])
        /\ frame.pc \in Running =>
              \A k \in 1..Len(frame.visited) : ~DoneAt(frame.visited[k])
        /\ frame.pc = "idle" =>
              /\ Len(frame.visited) = Taken
              /\ self.ptr = IF Backward THEN frame.snap.ptr
                            ELSE frame.snap.ptr + Taken
              /\ self.end = IF Backward THEN frame.snap.end - Taken
                            ELSE frame.snap.end
              /\ Stops = {} =>
                    /\ self.ptr = self.end
                    /\ frame.ret = CASE frame.op = "all" -> TRUE
                                     [] frame.op = "any" -> FALSE
                                     [] OTHER -> None

\* the 4-wide find returned at the third sub-step of a batch with elements
\* left over
EarlyExitWitness ==
    /\ Returned("find")
    /\ self.un
    /\ Len(frame.visited) = Fold4 - 1
    /\ CallLen >= Fold4 + 1
    /\ frame.ret = Some(self.ptr - 1)
    /\ self.end - self.ptr >= 2

\* ---------------------------------------------------------------------
\* C9: in every state, between calls and at every sub-step of a fold,
\* start <= end, both lie within the bounds the iterator was constructed
\* with, and every element read lies inside the original range.
RangeInvariant ==
    /\ orig.ptr <= self.ptr
    /\ self.ptr <= self.end
    /\ self.end <= orig.end
    /\ \A k \in 1..Len(frame.visited) : frame.visited[k] \in OrigRange
    /\ BagToSet(visits) \subseteq OrigRange

\* inside a 4-wide batch that began with exactly four elements left, three
\* sub-steps done
RangeWitness ==
    /\ frame.pc = "unrolled"
    /\ frame.sub = Fold4 - 1
    /\ self.end - self.ptr = 1
    /\ frame.op = "rposition"
    /\ frame.snap.end < orig.end

\* ---------------------------------------------------------------------
\* C10: the running index of rposition starts at the length n of the range,
\* is decremented once per visited element, never goes below 0, and after
\* each decrement is the forward index of the element tested; at most n
\* elements are visited, and none (no decrement) on an empty range.
RpositionIndexNoUnderflow ==
    frame.op = "rposition" =>
        /\ frame.index >= 0
        /\ frame.index <= CallLen
        /\ Len(frame.visited) <= CallLen
        /\ frame.index = CallLen - Len(frame.visited)
        /\ Len(frame.visited) > 0 =>
              frame.index = Last(frame.visited) - frame.snap.ptr
        /\ CallLen = 0 => frame.index = 0 /\ frame.visited = <<>>

\* the 4-wide rposition ran its index down to 0 over a batch and a remainder
RpositionIndexWitness ==
    /\ Returned("rposition")
    /\ self.un
    /\ frame.index = 0
    /\ Len(frame.visited) >= Fold4 + 1
    /\ frame.ret = None
====
